---- MODULE Spec2Model ----
(***************************************************************************)
(* hyprsunrisewatcher: the daemon's control loop (src/src/daemon.rs), the  *)
(* scheduling thread that feeds it, and the trigger sources                *)
(* (src/src/scheduler.rs) the thread polls.                                *)
(*                                                                         *)
(* Option<T> is a sequence of length 0 (None) or 1 (Some(x)).  Instants    *)
(* are whole seconds.  f64 degrees are whole degrees.                      *)
(***************************************************************************)
EXTENDS Integers, Sequences, FiniteSets, TLC

VARIABLES
    config,      \* Context.config, the ControlLoop's Configuration
    watcher,     \* Daemon.watcher: 0 is None, n > 0 is Some(the n-th watcher)
    watcherGen,  \* number of the watcher created last (wraps at MaxWatch)
    inbox,       \* the Action channel: Daemon.sender -> Daemon.receiver
    cfgChan,     \* the Configuration channel: config_sender -> run_trigger_thread
    loop,        \* Daemon::run: "running", "stopped" (break), "panicked" (expect)
    loopErr,     \* what made handle_command fail, "" if nothing did
    file,        \* the configuration file on disk
    spawned,     \* the subprocesses spawned so far, each by its command line
    trigStatus,  \* run_trigger_thread: "running", "sleeping", "exited", "panicked"
    scheduler,   \* run_trigger_thread's local `scheduler`: Option<TriggerSource>
    wakeAt,      \* the instant the thread's sleep(10s) ends, 0 if not sleeping
    built,       \* the last TriggerSource::from_config call: its input and outcome
    clock,       \* Utc::now()
    lastTarget,  \* the target instant of the Trigger the thread sent last
    sentCount,   \* how many Triggers the thread sent for lastTarget: 0, 1, 2 (or more)
    events,      \* how many times the environment acted so far: an action sent
                 \* by a client or the signal handler, the file rewritten
    call,        \* the last call of next_action_at on a source, asked from
                 \* outside the daemon: its arguments and what it returned
    listener,    \* start_translate_events' thread: "accepting", "ended"
    polled,      \* whether run_trigger_thread has been through its loop since
                 \* the clock last moved (kept where the threads are timed)
    conns,       \* the incoming connections by order of arrival, each with its
                 \* status: "none" (not arrived), "failed" (io error, skipped),
                 \* "open" (its thread decodes), "ended" (decode error or end
                 \* of input), "panicked" (its send failed), and whether its
                 \* thread has forwarded an action
    daemonState  \* main.rs' DaemonState with what its threads share: the
                 \* pipe, the Action channel, the flag and each thread's
                 \* position; `created` is FALSE before create_from_config

vars == <<config, watcher, watcherGen, inbox, cfgChan, loop, loopErr, file,
          spawned, trigStatus, scheduler, wakeAt, built, clock, lastTarget,
          sentCount, events, call, listener, polled, conns, daemonState>>

----------------------------------------------------------------------------
(* Bounds of the model *)

MaxQueue == 2       \* messages pending in the Action channel
MaxCfgQueue == 2    \* snapshots pending in the Configuration channel
MaxSpawn == 1       \* subprocesses recorded
MaxWatch == 2       \* watcher numbers in use
MaxEvents == 3      \* acts of the environment
MaxConns == 2       \* incoming connections

----------------------------------------------------------------------------
(* Option *)

None == <<>>
Some(x) == <<x>>
IsSome(o) == Len(o) = 1
IsNone(o) == Len(o) = 0
Unwrap(o) == o[1]

Abs(n) == IF n < 0 THEN -n ELSE n

----------------------------------------------------------------------------
(* Time and the solar day *)

SecondsPerDay == 86400

\* Civil dawn, sunrise, sunset and civil dusk of a day at the longitude of
\* the tests of scheduler.rs, as seconds after the day's midnight (UTC), here
\* the same every day.
DawnTod == 9600
SunriseTod == 12000
SunsetTod == 69900
DuskTod == 72300

\* the longitude of the coordinates in the tests of scheduler.rs, in degrees
ReferenceLongitude == 11

\* the sun passes a degree of longitude in 240 s: SolarDay::new(coords, date)
\* places the events of `date` around the solar noon of `coords`, which is
\* that much earlier (UTC) per degree east.  West of the reference the dusk
\* of a date falls on the next UTC date, east of it the dawn on the one before.
SecondsPerDegree == 240

DateNaive(t) == t \div SecondsPerDay
TimeOfDay(t) == t % SecondsPerDay

\* SolarDay::new(coords, day).event_time(ev)
EventTime(coords, day, ev) ==
    day * SecondsPerDay
      - (coords.longitude - ReferenceLongitude) * SecondsPerDegree
      + CASE ev = "Dawn" -> DawnTod
          [] ev = "Sunrise" -> SunriseTod
          [] ev = "Sunset" -> SunsetTod
          [] ev = "Dusk" -> DuskTod

ActionTriggers == {"Sunrise", "Sunset", "Dusk", "Dawn"}

ActionTriggerNext(t) ==
    CASE t = "Sunrise" -> "Sunset"
      [] t = "Sunset" -> "Dusk"
      [] t = "Dusk" -> "Dawn"
      [] t = "Dawn" -> "Sunrise"

\* IntervalNew with a sunrise window that starts after its boundary instant
IntervalNewSunriseExcluded(coords, now) ==
    LET today == DateNaive(now)
        today_dawn == EventTime(coords, today, "Dawn")
        yesterday_dusk == EventTime(coords, today - 1, "Dusk")
        today_sunrise == EventTime(coords, today, "Sunrise")
        today_sunset == EventTime(coords, today, "Sunset")
        today_dusk == EventTime(coords, today, "Dusk")
        tomorrow_dawn == EventTime(coords, today + 1, "Dawn")
    IN  IF yesterday_dusk < now /\ now < today_dawn
          THEN [start |-> yesterday_dusk, end |-> today_dawn, event |-> "Dusk"]
        ELSE IF today_dawn <= now /\ now < today_sunrise
          THEN [start |-> today_dawn, end |-> today_sunrise, event |-> "Dawn"]
        ELSE IF today_sunrise < now /\ now < today_sunset
          THEN [start |-> today_sunrise, end |-> today_sunset, event |-> "Sunrise"]
        ELSE IF today_sunset <= now /\ now < today_dusk
          THEN [start |-> today_sunset, end |-> today_dusk, event |-> "Sunset"]
        ELSE [start |-> today_dusk, end |-> tomorrow_dawn, event |-> "Dusk"]

\* Interval::new(coords, date)
IntervalNew(coords, now) ==
    LET today == DateNaive(now)
        today_dawn == EventTime(coords, today, "Dawn")
        yesterday_dusk == EventTime(coords, today - 1, "Dusk")
        today_sunrise == EventTime(coords, today, "Sunrise")
        today_sunset == EventTime(coords, today, "Sunset")
        today_dusk == EventTime(coords, today, "Dusk")
        tomorrow_dawn == EventTime(coords, today + 1, "Dawn")
    IN  IF yesterday_dusk < now /\ now < today_dawn
          THEN [start |-> yesterday_dusk, end |-> today_dawn, event |-> "Dusk"]
        ELSE IF today_dawn <= now /\ now < today_sunrise
          THEN [start |-> today_dawn, end |-> today_sunrise, event |-> "Dawn"]
        ELSE IF today_sunrise <= now /\ now < today_sunset
          THEN [start |-> today_sunrise, end |-> today_sunset, event |-> "Sunrise"]
        ELSE IF today_sunset <= now /\ now < today_dusk
          THEN [start |-> today_sunset, end |-> today_dusk, event |-> "Sunset"]
        ELSE [start |-> today_dusk, end |-> tomorrow_dawn, event |-> "Dusk"]

\* <LocationInfo as Trigger>::next_action_at
LocationNextActionAt(coords, date) ==
    LET interval == IntervalNew(coords, date)
    IN  Some([trigger |-> ActionTriggerNext(interval.event), at |-> interval.end])

\* Iterator::min_by over the time stamps with the comparison of
\* <Vec<ManualTimeStamp> as Trigger>::next_action_at: the signed differences
\* trigger_time - time-of-day are compared; of equal elements the first wins.
RECURSIVE MinByIndex(_, _, _, _)
MinByIndex(ts, tod, i, best) ==
    IF i > Len(ts) THEN best
    ELSE IF (ts[i].trigger_time - tod) < (ts[best].trigger_time - tod)
           THEN MinByIndex(ts, tod, i + 1, i)
           ELSE MinByIndex(ts, tod, i + 1, best)

\* ManualNextActionAt with a target for an empty list: the instant asked about
ManualNextActionAtEmptyIsNow(ts, date, wall) ==
    IF Len(ts) = 0 THEN Some([trigger |-> "Sunrise", at |-> date])
    ELSE LET m == ts[MinByIndex(ts, TimeOfDay(date), 2, 1)]
         IN  Some([trigger |-> m.action,
                   at |-> DateNaive(wall) * SecondsPerDay + m.trigger_time])

\* <Vec<ManualTimeStamp> as Trigger>::next_action_at: `date` picks the entry,
\* the wall clock (a second Utc::now()) gives the day of the target.
ManualNextActionAt(ts, date, wall) ==
    IF Len(ts) = 0 THEN None
    ELSE LET m == ts[MinByIndex(ts, TimeOfDay(date), 2, 1)]
         IN  Some([trigger |-> m.action,
                   at |-> DateNaive(wall) * SecondsPerDay + m.trigger_time])

----------------------------------------------------------------------------
(* Configuration (src/src/config.rs) *)

\* Actions: one optional command line per trigger kind
ActionsDefault ==
    [on_sunrise |-> None, on_sunset |-> None, on_dawn |-> None, on_dusk |-> None]

\* Actions::get
ActionsGet(actions, trigger) ==
    CASE trigger = "Sunrise" -> actions.on_sunrise
      [] trigger = "Sunset" -> actions.on_sunset
      [] trigger = "Dusk" -> actions.on_dusk
      [] trigger = "Dawn" -> actions.on_dawn

\* <Configuration as Default>::default; `manual` holds the time stamps
ConfigurationDefault ==
    [enabled |-> TRUE, manual |-> Some(<<>>), automatic |-> None,
     actions |-> ActionsDefault, hot_reload |-> FALSE]

\* A configuration file: unparsable, or the keys it sets (None: key absent).
FileOf(enabled, manual, automatic, actions, hot_reload) ==
    [parses |-> TRUE, enabled |-> enabled, manual |-> manual,
     automatic |-> automatic, actions |-> actions, hot_reload |-> hot_reload]

\* load_config: the defaults, overridden by the keys of the file; an error
\* when the file does not parse.  A file that is missing sets no key.
LoadConfig(f) ==
    IF ~f.parses THEN [ok |-> FALSE, config |-> ConfigurationDefault]
    ELSE [ok |-> TRUE,
          config |->
            [enabled |-> IF IsSome(f.enabled) THEN Unwrap(f.enabled)
                         ELSE ConfigurationDefault.enabled,
             manual |-> IF IsSome(f.manual) THEN f.manual
                        ELSE ConfigurationDefault.manual,
             automatic |-> IF IsSome(f.automatic) THEN f.automatic
                           ELSE ConfigurationDefault.automatic,
             actions |->
               [on_sunrise |-> IF IsSome(f.actions.on_sunrise)
                               THEN f.actions.on_sunrise
                               ELSE ConfigurationDefault.actions.on_sunrise,
                on_sunset |-> IF IsSome(f.actions.on_sunset)
                              THEN f.actions.on_sunset
                              ELSE ConfigurationDefault.actions.on_sunset,
                on_dawn |-> IF IsSome(f.actions.on_dawn)
                            THEN f.actions.on_dawn
                            ELSE ConfigurationDefault.actions.on_dawn,
                on_dusk |-> IF IsSome(f.actions.on_dusk)
                            THEN f.actions.on_dusk
                            ELSE ConfigurationDefault.actions.on_dusk],
             hot_reload |-> IF IsSome(f.hot_reload) THEN Unwrap(f.hot_reload)
                            ELSE ConfigurationDefault.hot_reload]]

----------------------------------------------------------------------------
(* Trigger sources (src/src/scheduler.rs) *)

\* Coordinates::new as From<(f64, f64)> for LocationInfo calls it
CoordinatesNew(lat, lon) ==
    IF -90 <= lat /\ lat <= 90 /\ -180 <= lon /\ lon <= 180
      THEN Some([latitude |-> lat, longitude |-> lon])
      ELSE None

NoSource ==
    [automatic |-> FALSE, coords |-> None, time_stamps |-> <<>>,
     actions |-> ActionsDefault]

\* FromConfig with the two tests in the other order: manual goes first
FromConfigManualFirst(cfg) ==
    IF IsSome(cfg.manual) THEN
        [result |-> "Ok", err |-> "",
         source |-> [automatic |-> FALSE, coords |-> None,
                     time_stamps |-> Unwrap(cfg.manual), actions |-> cfg.actions]]
    ELSE IF IsSome(cfg.automatic) THEN
        LET auto == Unwrap(cfg.automatic)
            coords == CoordinatesNew(auto.latitude, auto.longitude)
        IN  IF IsNone(coords)
              THEN [result |-> "Panic", err |-> "unwrap on None", source |-> NoSource]
              ELSE [result |-> "Ok", err |-> "",
                    source |-> [automatic |-> TRUE, coords |-> coords,
                                time_stamps |-> <<>>, actions |-> cfg.actions]]
    ELSE [result |-> "Err", err |-> "InvalidConfiguration", source |-> NoSource]

\* TriggerSource::from_config, with Scheduler::automatic, Scheduler::manual and
\* From<(f64, f64)> for LocationInfo, whose unwrap() panics on None.
\* result: "Ok" (source), "Err" (err returned) or "Panic" (the caller unwinds).
FromConfig(cfg) ==
    IF IsSome(cfg.automatic) THEN
        LET auto == Unwrap(cfg.automatic)
            coords == CoordinatesNew(auto.latitude, auto.longitude)
        IN  IF IsNone(coords)
              THEN [result |-> "Panic", err |-> "unwrap on None", source |-> NoSource]
              ELSE [result |-> "Ok", err |-> "",
                    source |-> [automatic |-> TRUE, coords |-> coords,
                                time_stamps |-> <<>>, actions |-> cfg.actions]]
    ELSE IF IsSome(cfg.manual) THEN
        [result |-> "Ok", err |-> "",
         source |-> [automatic |-> FALSE, coords |-> None,
                     time_stamps |-> Unwrap(cfg.manual), actions |-> cfg.actions]]
    ELSE [result |-> "Err", err |-> "InvalidConfiguration", source |-> NoSource]

\* Trigger::next_action_at of the source's trigger: a LocationInfo or a
\* Vec<ManualTimeStamp>
NextActionAt(source, date, wall) ==
    IF source.automatic
      THEN LocationNextActionAt(Unwrap(source.coords), date)
      ELSE ManualNextActionAt(source.time_stamps, date, wall)

\* <Scheduler<T> as EventSource>::next_event_at: Option<EventInfo>
NextEventAt(source, date, wall) ==
    LET trigger == NextActionAt(source, date, wall)
    IN  IF IsNone(trigger) THEN None
        ELSE Some([at |-> Unwrap(trigger).at,
                   trigger |-> Unwrap(trigger).trigger,
                   action |-> ActionsGet(source.actions, Unwrap(trigger).trigger)])

----------------------------------------------------------------------------
(* The inputs the model draws from *)

GoodCoords == [latitude |-> 49, longitude |-> 11]
BadCoords == [latitude |-> 91, longitude |-> 11]

\* the instant of the sunrise of day 1: the target the clock runs up to
TargetInstant == EventTime(GoodCoords, 1, "Sunrise")

\* the instants at which the threads look at the clock: more than 30 s before
\* the target, between 30 s and 10 s before it, within 10 s before it and
\* within 10 s after it
Instants == {TargetInstant + d : d \in {-32, -22, -5, 5}}

StampSunrise == [trigger_time |-> SunriseTod, action |-> "Sunrise"]
StampSunset == [trigger_time |-> SunsetTod, action |-> "Sunset"]

OnSunrise(cmd) == [ActionsDefault EXCEPT !.on_sunrise = Some(cmd)]

FileMissing == FileOf(None, None, None, ActionsDefault, None)
FileAutomatic ==
    FileOf(None, None, Some(GoodCoords), OnSunrise("cmdA"), Some(TRUE))
FileManual ==
    FileOf(Some(FALSE), Some(<<StampSunset, StampSunrise>>), None,
           OnSunrise("cmdB"), None)
FileBadCoords ==
    FileOf(None, None, Some(BadCoords), OnSunrise("cmdA"), Some(TRUE))
FileUnparsable == [FileMissing EXCEPT !.parses = FALSE]
\* on_sunrise = "": a trigger kind whose action string is empty
FileEmptyAction ==
    FileOf(None, None, Some(GoodCoords), OnSunrise(""), None)

Files ==
    {FileMissing, FileAutomatic, FileManual, FileBadCoords, FileUnparsable,
     FileEmptyAction}

\* a Configuration with neither `manual` nor `automatic`, as
\* Context::create_from_config accepts it
ConfigurationNeither == [ConfigurationDefault EXCEPT !.manual = None]

\* the configurations the daemon is started with
StartConfigs ==
    {LoadConfig(f).config : f \in {g \in Files : g.parses}}
      \cup {ConfigurationNeither}

----------------------------------------------------------------------------
(* Action values (src/src/abstraction/actions.rs) and who sent them *)

Msg(type, action, from) == [type |-> type, action |-> action, from |-> from]

\* the incoming connections, numbered as socket.incoming() yields them
Conns == 1..MaxConns

\* what a client connection can make bincode decode
ClientActions ==
    {Msg(t, "", "client") :
        t \in {"Stop", "Enable", "Disable", "Toggle", "ReloadConfig", "Nothing"}}
      \cup {Msg("Trigger", "cmdX", "client")}

----------------------------------------------------------------------------
(* The ControlLoop (src/src/daemon.rs) *)

\* the receiving end of the Configuration channel lives as long as
\* run_trigger_thread
TrigReceiverAlive == trigStatus \in {"running", "sleeping"}

\* the receiving end of the Action channel lives as long as Daemon::run
InboxReceiverAlive == loop = "running"

NextWatcher == (watcherGen % MaxWatch) + 1

\* handle_command returned Err, or panicked: Daemon::run's expect panics, the
\* main thread unwinds and drops the Daemon (its watcher with it).
LoopFails(why, cfg) ==
    /\ loop' = "panicked"
    /\ loopErr' = why
    /\ config' = cfg
    /\ watcher' = 0
    /\ UNCHANGED <<watcherGen, cfgChan, spawned>>

\* Daemon::recreate's config_sender.send(config.clone())?
SendConfig(cfg, w, gen) ==
    IF TrigReceiverAlive
      THEN /\ cfgChan' = Append(cfgChan, cfg)
           /\ config' = cfg
           /\ watcher' = w
           /\ watcherGen' = gen
           /\ UNCHANGED <<loop, loopErr, spawned>>
      ELSE LoopFails("send_config", cfg)

\* Recreate without `self.watcher = None`: a watch outlives hot_reload = false
RecreateKeepsWatch(cfg, watchOk) ==
    IF ~cfg.hot_reload THEN SendConfig(cfg, watcher, watcherGen)
    ELSE IF cfg.hot_reload /\ watcher = 0 THEN
        IF watchOk THEN SendConfig(cfg, NextWatcher, NextWatcher)
        ELSE LoopFails("start_hot_reload", cfg)
    ELSE SendConfig(cfg, watcher, watcherGen)

\* Daemon::recreate; watchOk: whether start_hot_reload succeeds if called
Recreate(cfg, watchOk) ==
    IF ~cfg.hot_reload THEN SendConfig(cfg, 0, watcherGen)
    ELSE IF cfg.hot_reload /\ watcher = 0 THEN
        IF watchOk THEN SendConfig(cfg, NextWatcher, NextWatcher)
        ELSE LoopFails("start_hot_reload", cfg)
    ELSE SendConfig(cfg, watcher, watcherGen)

\* HandleEnabled that can switch on only: Disable has no effect, nor has a
\* Toggle of an enabled daemon
HandleEnabledOnly(value) ==
    /\ config' = [config EXCEPT !.enabled = config.enabled \/ value]
    /\ UNCHANGED <<watcher, watcherGen, cfgChan, loop, loopErr, spawned>>

\* handle_command, Action::Enable, Action::Disable and Action::Toggle
HandleEnabled(value) ==
    /\ config' = [config EXCEPT !.enabled = value]
    /\ UNCHANGED <<watcher, watcherGen, cfgChan, loop, loopErr, spawned>>

\* HandleReloadConfig carrying the running `enabled` flag over the reload
HandleReloadConfigKeepsEnabled(watchOk) ==
    LET loaded == LoadConfig(file)
    IN  IF ~loaded.ok THEN LoopFails("load_config", config)
        ELSE Recreate([loaded.config EXCEPT !.enabled = config.enabled], watchOk)

\* handle_command, Action::ReloadConfig
HandleReloadConfig(watchOk) ==
    LET loaded == LoadConfig(file)
    IN  IF ~loaded.ok THEN LoopFails("load_config", config)
        ELSE Recreate(loaded.config, watchOk)

\* HandleTrigger without the `if config.enabled`
HandleTriggerUngated(action, spawnOk) ==
    IF spawnOk
      THEN /\ spawned' = Append(spawned, action)
           /\ UNCHANGED <<config, watcher, watcherGen, cfgChan, loop, loopErr>>
      ELSE LoopFails("spawn", config)

\* handle_command, Action::Trigger { action }; spawnOk: whether
\* Command::new("sh").arg("-c").arg(action).spawn() succeeds if called
HandleTrigger(action, spawnOk) ==
    IF config.enabled THEN
        IF spawnOk
          THEN /\ spawned' = Append(spawned, action)
               /\ UNCHANGED <<config, watcher, watcherGen, cfgChan, loop, loopErr>>
          ELSE LoopFails("spawn", config)
    ELSE UNCHANGED <<config, watcher, watcherGen, cfgChan, loop, loopErr, spawned>>

\* handle_command
HandleCommand(command, spawnOk, watchOk) ==
    CASE command.type = "Stop" -> LoopFails("unreachable", config)
      [] command.type = "Enable" -> HandleEnabled(TRUE)
      [] command.type = "Disable" -> HandleEnabled(FALSE)
      [] command.type = "Toggle" -> HandleEnabled(~config.enabled)
      [] command.type = "ReloadConfig" -> HandleReloadConfig(watchOk)
      [] command.type = "Trigger" -> HandleTrigger(command.action, spawnOk)
      [] command.type = "Nothing" ->
           UNCHANGED <<config, watcher, watcherGen, cfgChan, loop, loopErr,
                       spawned>>

\* what handling `command` would call, for the caps of the model
WouldSpawn(command) == command.type = "Trigger" /\ config.enabled
WouldSendConfig(command) == command.type = "ReloadConfig" /\ LoadConfig(file).ok

\* Break with `continue` in the place of `break`
BreakContinues ==
    UNCHANGED <<config, watcher, watcherGen, cfgChan, loop, loopErr, spawned>>

\* Daemon::run leaves its loop on Stop and returns, dropping the Daemon
Break ==
    /\ loop' = "stopped"
    /\ watcher' = 0
    /\ UNCHANGED <<config, watcherGen, cfgChan, loopErr, spawned>>

\* Run without `if c == Action::Stop { break; }`
RunWithoutStopCheck ==
    /\ loop = "running"
    /\ inbox # <<>>
    /\ LET c == Head(inbox)
       IN  /\ WouldSpawn(c) => Len(spawned) < MaxSpawn
           /\ WouldSendConfig(c) => Len(cfgChan) < MaxCfgQueue
           /\ inbox' = Tail(inbox)
           /\ \E spawnOk \in BOOLEAN, watchOk \in BOOLEAN :
                 HandleCommand(c, spawnOk, watchOk)
    /\ UNCHANGED <<file, trigStatus, scheduler, wakeAt, built, clock,
                   lastTarget, sentCount, events, call,
                   listener, conns, polled, daemonState>>

\* Daemon::run: one turn of `while let Ok(c) = self.receiver.recv()`
Run ==
    /\ loop = "running"
    /\ inbox # <<>>
    /\ LET c == Head(inbox)
       IN  /\ WouldSpawn(c) => Len(spawned) < MaxSpawn
           /\ WouldSendConfig(c) => Len(cfgChan) < MaxCfgQueue
           /\ inbox' = Tail(inbox)
           /\ IF c.type = "Stop" THEN Break
              ELSE \E spawnOk \in BOOLEAN, watchOk \in BOOLEAN :
                      HandleCommand(c, spawnOk, watchOk)
    /\ UNCHANGED <<file, trigStatus, scheduler, wakeAt, built, clock,
                   lastTarget, sentCount, events, call,
                   listener, conns, polled, daemonState>>

----------------------------------------------------------------------------
(* The scheduling thread (src/src/daemon.rs, run_trigger_thread) *)

SleepThreshold == 30   \* duration.abs() > TimeDelta::seconds(30)
SleepSeconds == 10     \* sleep(Duration::from_secs(10))
Tolerance == 10        \* duration.abs() < TimeDelta::seconds(10)

\* the sending end of the Configuration channel lives as long as the Daemon
CfgSenderAlive == loop = "running"

\* run_trigger_thread returned Err, or panicked: setup_trigger's expect panics
\* and the thread ends, dropping its ends of both channels.
TrigFails(sch) ==
    /\ trigStatus' = "panicked"
    /\ scheduler' = sch
    /\ UNCHANGED <<inbox, wakeAt, lastTarget, sentCount>>

TrigIdle(sch) ==
    /\ scheduler' = sch
    /\ UNCHANGED <<trigStatus, inbox, wakeAt, lastTarget, sentCount>>

\* sender.send(Action::Trigger { action })? for the event `ev`
SendTrigger(sch, ev) ==
    IF InboxReceiverAlive
      THEN /\ Len(inbox) < MaxQueue
           /\ inbox' = Append(inbox, Msg("Trigger", Unwrap(ev.action), "sched"))
           /\ lastTarget' = ev.at
           /\ sentCount' = IF lastTarget # ev.at THEN 1
                           ELSE IF sentCount < 2 THEN sentCount + 1
                           ELSE 2
           /\ scheduler' = sch
           /\ UNCHANGED <<trigStatus, wakeAt>>
      ELSE TrigFails(sch)

\* PollSource sending for every target it does not sleep on: those up to 30 s
\* away
PollSourceWithoutTolerance(sch) ==
    IF IsNone(sch) THEN TrigIdle(sch)
    ELSE LET now == clock
             next == NextEventAt(Unwrap(sch), now, clock)
         IN  IF IsNone(next) \/ IsNone(Unwrap(next).action) THEN TrigIdle(sch)
             ELSE LET ev == Unwrap(next)
                      duration == ev.at - now
                  IN  IF Abs(duration) > SleepThreshold
                        THEN /\ trigStatus' = "sleeping"
                             /\ wakeAt' = clock + SleepSeconds
                             /\ scheduler' = sch
                             /\ UNCHANGED <<inbox, lastTarget, sentCount>>
                      ELSE SendTrigger(sch, ev)

\* PollSource with a sleep of 30 s in the place of the 10 s
PollSourceSleepsLong(sch) ==
    IF IsNone(sch) THEN TrigIdle(sch)
    ELSE LET now == clock
             next == NextEventAt(Unwrap(sch), now, clock)
         IN  IF IsNone(next) \/ IsNone(Unwrap(next).action) THEN TrigIdle(sch)
             ELSE LET ev == Unwrap(next)
                      duration == ev.at - now
                  IN  IF Abs(duration) > SleepThreshold
                        THEN /\ trigStatus' = "sleeping"
                             /\ wakeAt' = clock + 3 * SleepSeconds
                             /\ scheduler' = sch
                             /\ UNCHANGED <<inbox, lastTarget, sentCount>>
                      ELSE IF Abs(duration) < Tolerance
                        THEN SendTrigger(sch, ev)
                      ELSE TrigIdle(sch)

\* the body of the loop after try_recv, with `sch` the thread's scheduler
PollSource(sch) ==
    IF IsNone(sch) THEN TrigIdle(sch)
    ELSE LET now == clock
             next == NextEventAt(Unwrap(sch), now, clock)
         IN  IF IsNone(next) \/ IsNone(Unwrap(next).action) THEN TrigIdle(sch)
             ELSE LET ev == Unwrap(next)
                      duration == ev.at - now
                  IN  IF Abs(duration) > SleepThreshold
                        THEN /\ trigStatus' = "sleeping"
                             /\ wakeAt' = clock + SleepSeconds
                             /\ scheduler' = sch
                             /\ UNCHANGED <<inbox, lastTarget, sentCount>>
                      ELSE IF Abs(duration) < Tolerance
                        THEN SendTrigger(sch, ev)
                      ELSE TrigIdle(sch)

\* ThreadIteration with TryRecvError::Disconnected taken like Empty
ThreadIterationPollsOn ==
    /\ trigStatus = "running"
    /\ IF cfgChan # <<>>
         THEN LET cfg == Head(cfgChan)
                  made == FromConfig(cfg)
              IN  /\ cfgChan' = Tail(cfgChan)
                  /\ built' = [called |-> TRUE, config |-> cfg,
                               result |-> made.result, err |-> made.err]
                  /\ IF made.result = "Ok" THEN PollSource(Some(made.source))
                     ELSE TrigFails(scheduler)
         ELSE /\ PollSource(scheduler)
              /\ UNCHANGED <<cfgChan, built>>
    /\ UNCHANGED <<config, watcher, watcherGen, loop, loopErr, file, spawned,
                   clock, events, call,
                   listener, conns, daemonState>>

\* run_trigger_thread: one turn of its loop, up to the sleep if it sleeps
ThreadIteration ==
    /\ trigStatus = "running"
    /\ IF cfgChan # <<>>
         THEN LET cfg == Head(cfgChan)
                  made == FromConfig(cfg)
              IN  /\ cfgChan' = Tail(cfgChan)
                  /\ built' = [called |-> TRUE, config |-> cfg,
                               result |-> made.result, err |-> made.err]
                  /\ IF made.result = "Ok" THEN PollSource(Some(made.source))
                     ELSE TrigFails(scheduler)
         ELSE IF ~CfgSenderAlive
           THEN /\ trigStatus' = "exited"
                /\ UNCHANGED <<cfgChan, built, scheduler, inbox, wakeAt,
                               lastTarget, sentCount>>
           ELSE /\ PollSource(scheduler)
                /\ UNCHANGED <<cfgChan, built>>
    /\ UNCHANGED <<config, watcher, watcherGen, loop, loopErr, file, spawned,
                   clock, events, call,
                   listener, conns, daemonState>>

\* a turn of run_trigger_thread's loop, whenever the thread is scheduled
RunTriggerThread == ThreadIteration /\ UNCHANGED polled

\* the thread's sleep(10 s) is over
WakeTriggerThread ==
    /\ trigStatus = "sleeping"
    /\ clock >= wakeAt
    /\ trigStatus' = "running"
    /\ wakeAt' = 0
    /\ UNCHANGED <<config, watcher, watcherGen, inbox, cfgChan, loop, loopErr,
                   file, spawned, scheduler, built, clock, lastTarget, sentCount,
                   events, call,
                   listener, conns, polled, daemonState>>

----------------------------------------------------------------------------
(* The other senders and the environment *)

\* start_translate_events: the thread of some connection forwards a decoded
\* action (the connections one by one: AcceptConnection, ConnectionSends)
ClientSend ==
    /\ InboxReceiverAlive
    /\ Len(inbox) < MaxQueue
    /\ \E a \in ClientActions : inbox' = Append(inbox, a)
    /\ events < MaxEvents
    /\ events' = events + 1
    /\ UNCHANGED <<config, watcher, watcherGen, cfgChan, loop, loopErr, file,
                   spawned, trigStatus, scheduler, wakeAt, built, clock,
                   lastTarget, sentCount, call,
                   listener, conns, polled, daemonState>>

\* setup_sig_handler: the ctrlc handler sends Stop
SigHandler ==
    /\ InboxReceiverAlive
    /\ Len(inbox) < MaxQueue
    /\ inbox' = Append(inbox, Msg("Stop", "", "signal"))
    /\ events < MaxEvents
    /\ events' = events + 1
    /\ UNCHANGED <<config, watcher, watcherGen, cfgChan, loop, loopErr, file,
                   spawned, trigStatus, scheduler, wakeAt, built, clock,
                   lastTarget, sentCount, call,
                   listener, conns, polled, daemonState>>

\* start_hot_reload's callback on an event of the watcher
HotReloadCallback(evOk, hasSource) ==
    IF evOk /\ hasSource
      THEN /\ Len(inbox) < MaxQueue
           /\ inbox' = Append(inbox, Msg("ReloadConfig", "", "watcher"))
      ELSE inbox' = inbox

\* FileWrite with the watcher's callback writing the Configuration itself
FileWriteReloadsDirectly ==
    /\ \E f \in Files \ {file} : file' = f
    /\ inbox' = inbox
    /\ config' = IF watcher # 0 /\ InboxReceiverAlive /\ LoadConfig(file').ok
                   THEN LoadConfig(file').config ELSE config
    /\ events < MaxEvents
    /\ events' = events + 1
    /\ UNCHANGED <<watcher, watcherGen, cfgChan, loop, loopErr,
                   spawned, trigStatus, scheduler, wakeAt, built, clock,
                   lastTarget, sentCount, call,
                   listener, conns, polled, daemonState>>

\* the configuration file is rewritten; an active watcher delivers the
\* notification of the modification, an Ok(event), to the callback
FileWrite ==
    /\ \E f \in Files \ {file} : file' = f
    /\ IF watcher # 0 /\ InboxReceiverAlive
         THEN \E hasSource \in BOOLEAN : HotReloadCallback(TRUE, hasSource)
         ELSE inbox' = inbox
    /\ events < MaxEvents
    /\ events' = events + 1
    /\ UNCHANGED <<config, watcher, watcherGen, cfgChan, loop, loopErr,
                   spawned, trigStatus, scheduler, wakeAt, built, clock,
                   lastTarget, sentCount, call,
                   listener, conns, polled, daemonState>>

\* time passes while no thread runs
Tick ==
    /\ \E t \in Instants : t > clock /\ clock' = t
    /\ UNCHANGED <<config, watcher, watcherGen, inbox, cfgChan, loop, loopErr,
                   file, spawned, trigStatus, scheduler, wakeAt, built,
                   lastTarget, sentCount, events, call,
                   listener, conns, polled, daemonState>>

----------------------------------------------------------------------------
(* The daemon after Daemon::create *)

\* no connection has arrived at the listener Daemon::create spawns
NoConn == [status |-> "none", forwarded |-> FALSE]

\* before DaemonState::create_from_config: no pipe, no channel, no thread
NoDaemonState ==
    [created |-> FALSE, translate_should_run |-> FALSE, pipe |-> <<>>,
     events |-> <<>>, translate_thread |-> "none", handler_thread |-> "none",
     enabled |-> TRUE, written |-> 0, signalled |-> FALSE, exit |-> "none"]

\* the watcher Daemon::create starts
CreateWatcher(cfg) == IF cfg.hot_reload THEN 1 ELSE 0

\* no call of next_action_at from outside the daemon yet
NoCall ==
    [made |-> FALSE, source |-> NoSource, date |-> 0, wall |-> 0,
     interval |-> None, result |-> None, again |-> FALSE, before |-> None]

\* Daemon::create with the configuration `cfg`, loaded from the file `f`
Create(f, cfg) ==
    /\ file = f
    /\ config = cfg
    /\ watcher = CreateWatcher(config)
    /\ watcherGen = watcher
    /\ inbox = <<>>
    /\ cfgChan = <<config>>
    /\ loop = "running"
    /\ loopErr = ""
    /\ spawned = <<>>
    /\ trigStatus = "running"
    /\ scheduler = None
    /\ wakeAt = 0
    /\ built = [called |-> FALSE, config |-> ConfigurationDefault,
                result |-> "", err |-> ""]
    /\ lastTarget = 0
    /\ sentCount = 0
    /\ events = 0
    /\ listener = "accepting"
    /\ conns = [c \in Conns |-> NoConn]
    /\ polled = FALSE
    /\ daemonState = NoDaemonState

Init ==
    /\ \E f \in {g \in Files : g.parses} :
          \E cfg \in {LoadConfig(f).config} \cup
                       (IF f = FileMissing THEN {ConfigurationNeither} ELSE {}) :
              Create(f, cfg)
    /\ clock \in Instants
    /\ call = NoCall

Next ==
    \/ Run
    \/ RunTriggerThread
    \/ WakeTriggerThread
    \/ ClientSend
    \/ SigHandler
    \/ FileWrite
    \/ Tick

Spec == Init /\ [][Next]_vars

----------------------------------------------------------------------------
(* The trigger sources on their own: next_action_at asked from outside the  *)
(* daemon, as the tests of scheduler.rs ask Interval::new                   *)

MaxDays == 1        \* days the wall clock runs on past the first

\* test_date_sunrise() and test_date_dusk() of the tests of scheduler.rs
TestDateSunrise == 1752414761
TestDateDusk == 1752364594

\* a place whose dusk falls on the next UTC date, and one whose dawn falls on
\* the UTC date before
WestCoords == [latitude |-> 49, longitude |-> -120]
EastCoords == [latitude |-> -34, longitude |-> 151]

ProbeCoords == {GoodCoords, WestCoords, EastCoords}

\* the configurations the sources asked are built from
ProbeConfigs ==
    {[ConfigurationDefault EXCEPT !.automatic = Some(c)] : c \in ProbeCoords}
      \cup {[ConfigurationDefault EXCEPT !.manual = Some(ts)] :
                ts \in {<<>>, <<StampSunrise>>, <<StampSunrise, StampSunset>>,
                        <<StampSunset, StampSunrise>>}}

ProbeSources == {FromConfig(cfg).source : cfg \in ProbeConfigs}

\* the instants asked about: every boundary of days 1 and 2 at each place,
\* the second before and the second after it, the first and the last second
\* of those days, and the instants of the tests
ProbeInstants ==
    {EventTime(c, d, ev) + k :
        c \in ProbeCoords, d \in {1, 2}, ev \in ActionTriggers, k \in {-1, 0, 1}}
      \cup {d * SecondsPerDay + k : d \in {1, 2}, k \in {0, SecondsPerDay - 1}}
      \cup {TestDateSunrise, TestDateDusk}

\* the instants the wall clock shows
WallInstants == {TargetInstant + d * SecondsPerDay : d \in 0..MaxDays}

\* the daemon's variables but the connections, the clock and `call`
controlVars ==
    <<config, watcher, watcherGen, inbox, cfgChan, loop, loopErr, file,
      spawned, trigStatus, scheduler, wakeAt, built, lastTarget, sentCount,
      events>>

daemonVars == <<controlVars, listener, conns, polled, daemonState>>

\* source.next_action_at(date), with LocationInfo::interval_at(date) for an
\* automatic source
AskNextActionAt ==
    /\ \E source \in ProbeSources, date \in ProbeInstants :
          LET again == call.made /\ call.source = source /\ call.date = date
          IN  call' = [made |-> TRUE, source |-> source, date |-> date,
                       wall |-> clock,
                       interval |-> IF source.automatic
                                      THEN Some(IntervalNew(Unwrap(source.coords),
                                                            date))
                                      ELSE None,
                       result |-> NextActionAt(source, date, clock),
                       again |-> again,
                       before |-> IF again THEN Some(call.result) ELSE None]
    /\ UNCHANGED <<daemonVars, clock>>

\* time passes between two calls
WallClockPasses ==
    /\ \E t \in WallInstants : t > clock /\ clock' = t
    /\ UNCHANGED <<daemonVars, call>>

SourceInit ==
    /\ Create(FileMissing, ConfigurationDefault)
    /\ clock \in WallInstants
    /\ call = NoCall

SourceNext ==
    \/ AskNextActionAt
    \/ WallClockPasses

SourceSpec == SourceInit /\ [][SourceNext]_vars

----------------------------------------------------------------------------
(* The listener and its connections (src/src/daemon.rs,                    *)
(* start_translate_events): who stands behind ClientSend                   *)

\* AcceptConnection with the connection served by the listener itself, not by
\* a thread of its own: no connection arrives while another one is open
AcceptConnectionSerial(c, ok) ==
    /\ listener = "accepting"
    /\ \A d \in Conns : conns[d].status # "open"
    /\ conns[c].status = "none"
    /\ \A d \in Conns : d < c => conns[d].status # "none"
    /\ conns' = [conns EXCEPT ![c].status = IF ok THEN "open" ELSE "failed"]
    /\ UNCHANGED <<listener, controlVars, clock, call, polled, daemonState>>

\* socket.incoming() yields the c-th connection; handle_error drops a failed
\* one, a good one gets its BufReader and its thread
AcceptConnection(c, ok) ==
    /\ listener = "accepting"
    /\ conns[c].status = "none"
    /\ \A d \in Conns : d < c => conns[d].status # "none"
    /\ conns' = [conns EXCEPT ![c].status = IF ok THEN "open" ELSE "failed"]
    /\ UNCHANGED <<listener, controlVars, clock, call, polled, daemonState>>

\* the connection's thread: decode_from_std_read returned Ok(action), and
\* s.send(action).expect("Failed to send action")
ConnectionSends(c) ==
    /\ conns[c].status = "open"
    /\ events < MaxEvents
    /\ events' = events + 1
    /\ IF InboxReceiverAlive
         THEN /\ Len(inbox) < MaxQueue
              /\ \E a \in ClientActions : inbox' = Append(inbox, a)
              /\ conns' = [conns EXCEPT ![c].forwarded = TRUE]
         ELSE /\ inbox' = inbox
              /\ conns' = [conns EXCEPT ![c].status = "panicked"]
    /\ UNCHANGED <<config, watcher, watcherGen, cfgChan, loop, loopErr, file,
                   spawned, trigStatus, scheduler, wakeAt, built, clock,
                   lastTarget, sentCount, call, listener, polled, daemonState>>

\* ConnectionEnds taking the listener down with it
ConnectionEndsListener(c) ==
    /\ conns[c].status = "open"
    /\ conns' = [conns EXCEPT ![c].status = "ended"]
    /\ listener' = "ended"
    /\ UNCHANGED <<controlVars, clock, call, polled, daemonState>>

\* the connection's thread: decode_from_std_read returned Err (undecodable
\* input, or the end of the input), `while let` is over and the thread ends
ConnectionEnds(c) ==
    /\ conns[c].status = "open"
    /\ conns' = [conns EXCEPT ![c].status = "ended"]
    /\ UNCHANGED <<listener, controlVars, clock, call, polled, daemonState>>

\* the daemon after Daemon::create, as its clients see it
ListenerInit ==
    /\ Create(FileMissing, ConfigurationDefault)
    /\ clock = TargetInstant
    /\ call = NoCall

ListenerNext ==
    \/ Run
    \/ SigHandler
    \/ \E c \in Conns, ok \in BOOLEAN : AcceptConnection(c, ok)
    \/ \E c \in Conns : ConnectionSends(c)
    \/ \E c \in Conns : ConnectionEnds(c)

ListenerSpec == ListenerInit /\ [][ListenerNext]_vars

\* Daemon::run blocks in recv() on the main thread and is woken whenever an
\* action is pending: a turn of its loop that stays possible is taken
FairListenerSpec == ListenerSpec /\ WF_vars(Run)

----------------------------------------------------------------------------
(* The threads against the clock: a turn of a loop takes far less than a   *)
(* second, so each thread that can run has run before the time moves on    *)

\* a turn of run_trigger_thread's loop at the present reading of the clock
TimedRunTriggerThread == ThreadIteration /\ polled' = TRUE

\* the time moves on to the next instant, after the scheduling thread, if
\* awake, has been through its loop, and not past the end of its sleep
TimedTick ==
    /\ trigStatus = "running" => polled
    /\ ~ENABLED WakeTriggerThread
    /\ \E t \in Instants :
          /\ t > clock
          /\ \A u \in Instants : u > clock => t <= u
          /\ clock' = t
    /\ polled' = FALSE
    /\ UNCHANGED <<controlVars, listener, conns, call, daemonState>>

TimedNext ==
    \/ Run
    \/ TimedRunTriggerThread
    \/ WakeTriggerThread
    \/ SigHandler
    \/ FileWrite
    \/ TimedTick

TimedSpec == Init /\ [][TimedNext]_vars

\* the daemon on its way down: no file is rewritten, the signal arrives
ShutdownNext ==
    \/ Run
    \/ TimedRunTriggerThread
    \/ WakeTriggerThread
    \/ SigHandler
    \/ TimedTick

\* the scheduling thread is a thread of the operating system: it goes on
\* through its loop while it is awake, it wakes when its sleep is over, and
\* the time never stands still
FairShutdownSpec ==
    /\ Init
    /\ [][ShutdownNext]_vars
    /\ WF_vars(TimedRunTriggerThread)
    /\ WF_vars(WakeTriggerThread)
    /\ WF_vars(TimedTick)

----------------------------------------------------------------------------
(* The startup: Daemon::create (src/src/daemon.rs) as a step of its own    *)

\* the process before Daemon::create: the Context holds the Configuration
\* load_config read, nothing is started
NotCreated(f, cfg) ==
    /\ file = f
    /\ config = cfg
    /\ watcher = 0
    /\ watcherGen = 0
    /\ inbox = <<>>
    /\ cfgChan = <<>>
    /\ loop = "none"
    /\ loopErr = ""
    /\ spawned = <<>>
    /\ trigStatus = "none"
    /\ scheduler = None
    /\ wakeAt = 0
    /\ built = [called |-> FALSE, config |-> ConfigurationDefault,
                result |-> "", err |-> ""]
    /\ lastTarget = 0
    /\ sentCount = 0
    /\ events = 0
    /\ listener = "none"
    /\ conns = [c \in Conns |-> NoConn]
    /\ polled = FALSE
    /\ daemonState = NoDaemonState

\* DaemonCreate sending the startup snapshot to nobody
DaemonCreateSendsNothing(listenerOk, watchOk) ==
    /\ loop = "none"
    /\ IF ~listenerOk
         THEN /\ loop' = "failed"
              /\ loopErr' = "FailedtoCreateDaemon"
              /\ UNCHANGED <<listener, trigStatus, cfgChan, watcher, watcherGen>>
         ELSE /\ listener' = "accepting"
              /\ trigStatus' = "running"
              /\ cfgChan' = <<>>
              /\ IF config.hot_reload /\ ~watchOk
                   THEN /\ loop' = "failed"
                        /\ loopErr' = "start_hot_reload"
                        /\ UNCHANGED <<watcher, watcherGen>>
                   ELSE /\ loop' = "running"
                        /\ loopErr' = loopErr
                        /\ watcher' = CreateWatcher(config)
                        /\ watcherGen' = CreateWatcher(config)
    /\ UNCHANGED <<config, inbox, file, spawned, scheduler, wakeAt, built, clock,
                   lastTarget, sentCount, events, call, conns, polled, daemonState>>

\* Daemon::create; listenerOk: whether opts.create_sync() succeeds, watchOk:
\* whether start_hot_reload succeeds if called
DaemonCreate(listenerOk, watchOk) ==
    /\ loop = "none"
    /\ IF ~listenerOk
         THEN /\ loop' = "failed"
              /\ loopErr' = "FailedtoCreateDaemon"
              /\ UNCHANGED <<listener, trigStatus, cfgChan, watcher, watcherGen>>
         ELSE /\ listener' = "accepting"
              /\ trigStatus' = "running"
              /\ cfgChan' = <<config>>
              /\ IF config.hot_reload /\ ~watchOk
                   THEN /\ loop' = "failed"
                        /\ loopErr' = "start_hot_reload"
                        /\ UNCHANGED <<watcher, watcherGen>>
                   ELSE /\ loop' = "running"
                        /\ loopErr' = loopErr
                        /\ watcher' = CreateWatcher(config)
                        /\ watcherGen' = CreateWatcher(config)
    /\ UNCHANGED <<config, inbox, file, spawned, scheduler, wakeAt, built, clock,
                   lastTarget, sentCount, events, call, conns, polled, daemonState>>

StartupInit ==
    /\ \E f \in {g \in Files : g.parses} : NotCreated(f, LoadConfig(f).config)
    /\ clock = TargetInstant
    /\ call = NoCall

StartupNext ==
    \/ \E listenerOk \in BOOLEAN, watchOk \in BOOLEAN :
          DaemonCreate(listenerOk, watchOk)
    \/ Run
    \/ RunTriggerThread
    \/ ClientSend
    \/ SigHandler

StartupSpec == StartupInit /\ [][StartupNext]_vars

----------------------------------------------------------------------------
(* The claims *)

\* the step in which Daemon::run receives an action of type `type`
RunTakes(type) ==
    /\ loop = "running"
    /\ inbox # <<>>
    /\ Head(inbox).type = type
    /\ inbox' = Tail(inbox)

\* C1: for each target instant the scheduling thread sends at most one Trigger,
\* however many of its polls fall inside the target's 10-second window, also
\* when two polls read the same `now`.
C1_AtMostOneTriggerPerTarget == sentCount <= 1

\* C2, as stated: handling Trigger{command} spawns no subprocess while enabled
\* is false and exactly one subprocess running `command` while it is true.
C2_ExactlyOneSpawnWhileEnabled ==
    [][RunTakes("Trigger") =>
         IF config.enabled THEN spawned' = Append(spawned, Head(inbox).action)
         ELSE spawned' = spawned]_vars

\* C2, amended: handling Trigger{command} spawns nothing while enabled is
\* false; while enabled is true it spawns exactly one subprocess running
\* `command`, or none when the spawn call itself fails, which ends the loop.
C2_EnabledGatesSpawn ==
    [][RunTakes("Trigger") =>
         IF config.enabled
           THEN \/ spawned' = Append(spawned, Head(inbox).action) /\ loop' = "running"
                \/ spawned' = spawned /\ loop' = "panicked" /\ loopErr' = "spawn"
           ELSE spawned' = spawned /\ loop' = "running"]_vars

\* a subprocess was spawned, enabled has been switched off since, and a
\* Trigger is the next action the loop receives
C2_Witness ==
    /\ loop = "running"
    /\ spawned # <<>>
    /\ ~config.enabled
    /\ inbox # <<>>
    /\ Head(inbox).type = "Trigger"

\* C3: a ReloadConfig that is handled successfully leaves every field of the
\* Configuration equal to what is read from the file, `enabled` included, and
\* sends that same Configuration to the scheduling thread.
C3_ReloadReplacesWholesale ==
    [][(RunTakes("ReloadConfig") /\ loop' = "running") =>
         /\ config' = LoadConfig(file).config
         /\ cfgChan' = Append(cfgChan, config')]_vars

\* the thread built its source from the startup configuration, and a reload
\* has since sent a different configuration, which is the loop's current one
C3_Witness ==
    /\ loop = "running"
    /\ built.called
    /\ cfgChan = <<config>>
    /\ config # built.config
    /\ config.enabled # built.config.enabled

\* C4: when ReloadConfig is handled and the file cannot be parsed, the loop
\* keeps running with its Configuration unchanged and a ReloadConfig is in the
\* channel again for the retry.
C4_UnreadableFileIsRetried ==
    [][(RunTakes("ReloadConfig") /\ ~LoadConfig(file).ok) =>
         /\ loop' = "running"
         /\ config' = config
         /\ \E i \in DOMAIN inbox' : inbox'[i].type = "ReloadConfig"]_vars

\* C5: when Trigger{command} is handled with enabled true and the spawn fails
\* (no subprocess appears), the loop keeps running with its state unchanged.
C5_SpawnFailureIsNotFatal ==
    [][(RunTakes("Trigger") /\ config.enabled /\ spawned' = spawned) =>
         /\ loop' = "running"
         /\ config' = config
         /\ watcher' = watcher]_vars

\* C6: after the scheduling thread failed to build a source with
\* InvalidConfiguration, a ReloadConfig that reads a configuration with a
\* schedule is handled successfully and reaches a scheduling thread that is
\* still there to build a source from it.
C6_ValidReloadRevivesScheduler ==
    [][(/\ RunTakes("ReloadConfig")
        /\ built.err = "InvalidConfiguration"
        /\ LoadConfig(file).ok
        /\ FromConfig(LoadConfig(file).config).result = "Ok"
        /\ loopErr' # "start_hot_reload") =>
         /\ loop' = "running"
         /\ TrigReceiverAlive
         /\ cfgChan' = Append(cfgChan, LoadConfig(file).config)]_vars

\* C7: building a source from an automatic configuration whose coordinates
\* are out of range returns the InvalidCoordinates error to the caller.
C7_BadCoordinatesReturnError ==
    (/\ built.called
     /\ IsSome(built.config.automatic)
     /\ IsNone(CoordinatesNew(Unwrap(built.config.automatic).latitude,
                              Unwrap(built.config.automatic).longitude))) =>
      (built.result = "Err" /\ built.err = "InvalidCoordinates")

\* C8: while the daemon runs, a watch is present exactly if hot_reload is true;
\* a successful reload to hot_reload = false drops the watch, one to
\* hot_reload = true keeps the watch there is and starts one if there is none.
C8_WatchMirrorsHotReload ==
    /\ [](loop = "running" => ((watcher # 0) <=> config.hot_reload))
    /\ [][(RunTakes("ReloadConfig") /\ loop' = "running") =>
            IF ~config'.hot_reload THEN watcher' = 0
            ELSE IF watcher # 0 THEN watcher' = watcher /\ watcherGen' = watcherGen
            ELSE watcher' # 0 /\ watcher' = watcherGen' /\ watcherGen' # watcherGen]_vars

\* the daemon runs with its second watcher: a reload dropped the first watch
\* and a later one started another
C8_Witness == loop = "running" /\ watcher = 2 /\ config.hot_reload

\* C9: receiving Stop ends the loop, and once it has ended no action is taken
\* from the channel, no subprocess is spawned, and neither the Configuration
\* nor the watch changes nor is a snapshot sent.
C9_StopIsTerminal ==
    [][/\ RunTakes("Stop") => loop' = "stopped"
       /\ loop = "stopped" =>
            /\ loop' = "stopped"
            /\ inbox' = inbox
            /\ spawned' = spawned
            /\ config' = config
            /\ watcher' = watcher
            /\ Len(cfgChan') <= Len(cfgChan)]_vars

\* the loop has ended on Stop with a ReloadConfig still in the channel
C9_Witness ==
    /\ loop = "stopped"
    /\ inbox # <<>>
    /\ Head(inbox).type = "ReloadConfig"

\* C10: every action the scheduling thread sends is a Trigger, and
\* handle_command's unreachable!() for Stop is never reached.
C10_StopNeverReachesHandler ==
    /\ \A i \in DOMAIN inbox : inbox[i].from = "sched" => inbox[i].type = "Trigger"
    /\ loopErr # "unreachable"

\* the loop has ended on Stop, without a failure, with a Trigger of the
\* scheduling thread behind it in the channel
C10_Witness ==
    /\ loop = "stopped"
    /\ loopErr = ""
    /\ \E i \in DOMAIN inbox : inbox[i].from = "sched"

\* C11: every action a client connection's thread has forwarded to the channel
\* is one of Stop, Enable, Disable, Toggle and ReloadConfig: no Trigger and no
\* Nothing of a client reaches the ControlLoop.
C11_ClientsSendOnlyExternalActions ==
    \A i \in DOMAIN inbox :
        inbox[i].from = "client" =>
            inbox[i].type \in {"Stop", "Enable", "Disable", "Toggle", "ReloadConfig"}

\* C12: a Trigger of the scheduling thread that makes the loop spawn a
\* subprocess runs a command of the Configuration current in the loop at that
\* time, never one that only a Configuration replaced by a reload held.
C12_SpawnedCommandIsCurrent ==
    [][(RunTakes("Trigger") /\ Head(inbox).from = "sched" /\ spawned' # spawned) =>
         \E k \in ActionTriggers :
             ActionsGet(config.actions, k) = Some(Head(inbox).action)]_vars

\* the step in which the scheduling thread sends an action to the loop
SchedSends ==
    /\ Len(inbox') = Len(inbox) + 1
    /\ inbox'[Len(inbox')].from = "sched"

\* C15: the scheduling thread sends a Trigger only when the kind of its
\* source's next target has an action that is present and not empty, and no
\* subprocess is ever spawned with an empty command.
C15_NoActionNoCommand ==
    /\ [](\A i \in DOMAIN spawned : spawned[i] # "")
    /\ [][SchedSends =>
            LET ev == NextEventAt(Unwrap(scheduler'), clock, clock)
            IN  /\ IsSome(ev)
                /\ IsSome(Unwrap(ev).action)
                /\ Unwrap(Unwrap(ev).action) # ""]_vars

\* the scheduling thread's source is a manual one with no time stamps
EmptyManualActive(sch) ==
    /\ IsSome(sch)
    /\ ~Unwrap(sch).automatic
    /\ Unwrap(sch).time_stamps = <<>>

\* C16: a manual source without time stamps has no target at any instant, and
\* while it is the scheduling thread's source the thread sends no Trigger.
C16_EmptyManualNeverFires ==
    /\ [](EmptyManualActive(scheduler) =>
            \A date \in Instants :
                /\ ManualNextActionAt(Unwrap(scheduler).time_stamps, date, clock) = None
                /\ NextEventAt(Unwrap(scheduler), date, clock) = None)
    /\ [][EmptyManualActive(scheduler') => ~SchedSends]_vars

\* the thread has replaced an automatic source whose sunrise it had announced
\* by a manual source without time stamps, and runs on
C16_Witness ==
    /\ trigStatus = "running"
    /\ EmptyManualActive(scheduler)
    /\ sentCount > 0
    /\ cfgChan = <<>>

\* C20: the scheduling thread sends a Trigger only in an iteration in which
\* the target its source returns for the iteration's `now` is less than 10 s
\* away from that `now`.
C20_TriggerOnlyWithinTolerance ==
    [][SchedSends =>
         LET ev == NextEventAt(Unwrap(scheduler'), clock, clock)
         IN  /\ IsSome(ev)
             /\ Unwrap(ev).at = lastTarget'
             /\ Abs(Unwrap(ev).at - clock) < Tolerance]_vars

\* the thread has sent one Trigger, for a target less than 10 s away, which is
\* the last action in the channel, and the environment has not acted
C20_Witness ==
    /\ built.called
    /\ sentCount = 1
    /\ Abs(lastTarget - clock) < Tolerance
    /\ inbox # <<>>
    /\ inbox[Len(inbox)].from = "sched"
    /\ events = 0

\* the last call asked a manual source with time stamps
ManualAsked == call.made /\ ~call.source.automatic /\ call.source.time_stamps # <<>>

\* the last call asked an automatic source
AutomaticAsked == call.made /\ call.source.automatic

\* C13: for a manual source with time stamps, next_action_at(now) returns the
\* kind of an entry whose time of day has the smallest absolute difference
\* from now's time of day, with that entry's time of day as the target's.
C13_ManualPicksClosestTimeOfDay ==
    ManualAsked =>
        LET ts == call.source.time_stamps
            tod == TimeOfDay(call.date)
        IN  /\ IsSome(call.result)
            /\ \E i \in DOMAIN ts :
                  /\ Unwrap(call.result).trigger = ts[i].action
                  /\ TimeOfDay(Unwrap(call.result).at) = ts[i].trigger_time
                  /\ \A j \in DOMAIN ts :
                        Abs(ts[i].trigger_time - tod) <= Abs(ts[j].trigger_time - tod)

\* C14: a call of next_action_at that repeats the instant of the call before
\* it, on the same source, returns what that call returned, whatever the wall
\* clock showed at either call.
C14_SameInstantSameResult ==
    call.again => call.before = Some(call.result)

\* the six boundary instants around the instant `now` at the place `coords`
Boundaries(coords, now) ==
    LET today == DateNaive(now)
    IN  [yesterday_dusk |-> EventTime(coords, today - 1, "Dusk"),
         today_dawn |-> EventTime(coords, today, "Dawn"),
         today_sunrise |-> EventTime(coords, today, "Sunrise"),
         today_sunset |-> EventTime(coords, today, "Sunset"),
         today_dusk |-> EventTime(coords, today, "Dusk"),
         tomorrow_dawn |-> EventTime(coords, today + 1, "Dawn")]

\* C17: with the six boundary instants in their order, the event of the
\* Interval of `now` is Dusk in [yesterday's dusk, today's dawn), Dawn in
\* [today's dawn, today's sunrise), Sunrise in [today's sunrise, today's
\* sunset), Sunset in [today's sunset, today's dusk), the first that matches,
\* and Dusk at any other instant; the instants of the tests give Sunrise and
\* Dusk.
C17_IntervalEventByWindow ==
    AutomaticAsked =>
        LET now == call.date
            b == Boundaries(Unwrap(call.source.coords), now)
            event == Unwrap(call.interval).event
        IN  /\ b.yesterday_dusk < b.today_dawn
            /\ b.today_dawn < b.today_sunrise
            /\ b.today_sunrise < b.today_sunset
            /\ b.today_sunset < b.today_dusk
            /\ b.today_dusk < b.tomorrow_dawn
            /\ event =
                 (IF b.yesterday_dusk <= now /\ now < b.today_dawn THEN "Dusk"
                  ELSE IF b.today_dawn <= now /\ now < b.today_sunrise THEN "Dawn"
                  ELSE IF b.today_sunrise <= now /\ now < b.today_sunset THEN "Sunrise"
                  ELSE IF b.today_sunset <= now /\ now < b.today_dusk THEN "Sunset"
                  ELSE "Dusk")
            /\ (call.source.coords = Some(GoodCoords) /\ now = TestDateSunrise)
                  => event = "Sunrise"
            /\ (call.source.coords = Some(GoodCoords) /\ now = TestDateDusk)
                  => event = "Dusk"

\* an automatic source was asked about the very instant of yesterday's dusk,
\* the start of the first window
C17_Witness ==
    /\ AutomaticAsked
    /\ call.date = Boundaries(Unwrap(call.source.coords), call.date).yesterday_dusk

\* C18: for yesterday's dusk <= now < tomorrow's dawn the Interval of `now` is
\* one of the five windows between the six boundaries and contains `now`:
\* start <= now < end.
C18_IntervalContainsNow ==
    AutomaticAsked =>
        LET now == call.date
            b == Boundaries(Unwrap(call.source.coords), now)
            interval == Unwrap(call.interval)
        IN  (b.yesterday_dusk <= now /\ now < b.tomorrow_dawn) =>
                /\ interval.start <= now
                /\ now < interval.end
                /\ <<interval.start, interval.end>> \in
                     {<<b.yesterday_dusk, b.today_dawn>>,
                      <<b.today_dawn, b.today_sunrise>>,
                      <<b.today_sunrise, b.today_sunset>>,
                      <<b.today_sunset, b.today_dusk>>,
                      <<b.today_dusk, b.tomorrow_dawn>>}

\* C19: for the automatic source next_action_at(now) returns the successor of
\* the event of the Interval of `now` with the Interval's end, and the kind
\* returned is the event of the Interval of that end instant.
C19_AnnouncesEventOfEnd ==
    AutomaticAsked =>
        LET interval == Unwrap(call.interval)
            announced == Unwrap(call.result)
        IN  /\ IsSome(call.result)
            /\ announced.trigger = ActionTriggerNext(interval.event)
            /\ announced.at = interval.end
            /\ IntervalNew(Unwrap(call.source.coords), announced.at).event
                 = announced.trigger

\* the step in which Daemon::run takes the action at the head of the channel
LoopTakes ==
    /\ loop = "running"
    /\ inbox # <<>>
    /\ inbox' = Tail(inbox)

\* C21: the Configuration with its enabled flag, the watch and the
\* subprocesses change only in a step in which the ControlLoop takes an
\* action; every other step at most appends one action to the channel, and
\* the loop takes one action per step.
C21_OnlyControlLoopWrites ==
    [][/\ (config' # config \/ watcher' # watcher \/ spawned' # spawned)
            => LoopTakes
       /\ inbox' # inbox =>
            \/ LoopTakes
            \/ /\ Len(inbox') = Len(inbox) + 1
               /\ SubSeq(inbox', 1, Len(inbox)) = inbox
               /\ config' = config
               /\ watcher' = watcher
               /\ spawned' = spawned]_vars

\* the loop runs on a Configuration other than the one the scheduling thread
\* built its source from, with no watch left of the one it had started, while
\* an action of a client and an action of the watcher wait in the channel
C21_Witness ==
    /\ loop = "running"
    /\ built.called
    /\ config # built.config
    /\ watcher = 0
    /\ watcherGen # 0
    /\ \E i \in DOMAIN inbox : inbox[i].from = "client"
    /\ \E i \in DOMAIN inbox : inbox[i].from = "watcher"

\* C25: handling Enable sets enabled to true, Disable sets it to false and
\* Toggle negates it, whatever the state, and changes nothing else: Enable
\* and Disable are idempotent, two Toggles in a row restore the value, and
\* enabled after a sequence of them is set by the last Enable or Disable and
\* the Toggles since.
C25_EnableDisableToggle ==
    [][/\ RunTakes("Enable") => config' = [config EXCEPT !.enabled = TRUE]
       /\ RunTakes("Disable") => config' = [config EXCEPT !.enabled = FALSE]
       /\ RunTakes("Toggle") => config' = [config EXCEPT !.enabled = ~config.enabled]
       /\ (RunTakes("Enable") \/ RunTakes("Disable") \/ RunTakes("Toggle")) =>
            /\ loop' = "running"
            /\ watcher' = watcher
            /\ spawned' = spawned
            /\ cfgChan' = cfgChan]_vars

\* the daemon has been switched off, and a Toggle followed by a Disable waits
\* in the channel
C25_Witness ==
    /\ loop = "running"
    /\ ~config.enabled
    /\ built.called
    /\ built.config.enabled
    /\ Len(inbox) = 2
    /\ inbox[1].type = "Toggle"
    /\ inbox[2].type = "Disable"

\* C24: while a watch is active, a modification of the configuration file,
\* which the watcher reports to the callback, puts exactly one ReloadConfig
\* into the channel.
C24_EveryNotificationReloads ==
    [][(file' # file /\ watcher # 0 /\ InboxReceiverAlive) =>
          inbox' = Append(inbox, Msg("ReloadConfig", "", "watcher"))]_vars

\* C27: once the scheduling thread has ended with an unexpected failure (a
\* panic inside its loop, not the InvalidConfiguration error), the ControlLoop
\* handles no further action and goes on.
C27_ThreadFailureEndsDaemon ==
    [][(trigStatus = "panicked" /\ built.result = "Panic")
          => ~(LoopTakes /\ loop' = "running")]_vars

\* C22: the Action channel is a queue the senders append to and the running
\* ControlLoop takes the head of, so each sender's actions are applied in the
\* order sent; and none is lost before a Stop: the ControlLoop ends with
\* actions still pending only when the action it took was Stop.
C22_InOrderNoneLostBeforeStop ==
    [][/\ \/ inbox' = inbox
          \/ /\ Len(inbox') = Len(inbox) + 1
             /\ SubSeq(inbox', 1, Len(inbox)) = inbox
          \/ LoopTakes
       /\ (LoopTakes /\ loop' # "running" /\ inbox' # <<>>)
             => Head(inbox).type = "Stop"]_vars

\* C29: once the scheduling thread has polled the most recent snapshot the
\* ControlLoop sent (the Configuration channel is empty again), and that
\* snapshot names a source, manual or automatic, the thread is alive and
\* holds the TriggerSource built from that snapshot.
C29_ThreadHoldsNewestSource ==
    (/\ loop = "running"
     /\ built.called
     /\ cfgChan = <<>>
     /\ IsSome(built.config.manual) \/ IsSome(built.config.automatic))
        => /\ TrigReceiverAlive
           /\ scheduler = Some(FromConfig(built.config).source)

\* C30: at most one Configuration snapshot is pending in the channel from the
\* ControlLoop to the scheduling thread, so that the thread's poll yields the
\* newest snapshot.
C30_OneSnapshotPending == Len(cfgChan) <= 1

\* the c-th connection goes from the status `from` to the status `to`
ConnStep(c, from, to) == conns[c].status = from /\ conns'[c].status = to

\* C23: a connection whose input cannot be decoded ends alone, and a failed
\* incoming connection is skipped: the step leaves the Action channel with
\* everything forwarded so far, every other connection, the listener (still
\* accepting) and the ControlLoop as they were.
C23_ConnectionErrorsStayLocal ==
    [][\A c \in Conns :
          (ConnStep(c, "open", "ended") \/ ConnStep(c, "none", "failed"))
            => /\ inbox' = inbox
               /\ conns'[c].forwarded = conns[c].forwarded
               /\ \A d \in Conns \ {c} : conns'[d] = conns[d]
               /\ listener' = "accepting"
               /\ loop' = loop]_vars

\* C23 happens: the first connection failed, the second one was accepted
\* after it, forwarded an action and then ended on undecodable input; the
\* action is still pending and the ControlLoop runs.
C23_Witness ==
    /\ conns[1].status = "failed"
    /\ conns[2].status = "ended"
    /\ conns[2].forwarded
    /\ inbox # <<>>
    /\ listener = "accepting"
    /\ loop = "running"

\* C28: while a connection is open and has sent nothing, every other open
\* connection can have its next action decoded and forwarded (the channel's
\* receiver alive, the model's bounds not reached), and the next incoming
\* connection can be accepted.
C28_ConnectionsDoNotBlockEachOther ==
    \A c \in Conns :
        (conns[c].status = "open" /\ ~conns[c].forwarded) =>
            /\ \A d \in Conns \ {c} :
                  (/\ conns[d].status = "open"
                   /\ InboxReceiverAlive
                   /\ Len(inbox) < MaxQueue
                   /\ events < MaxEvents) => ENABLED ConnectionSends(d)
            /\ \A d \in Conns :
                  (/\ conns[d].status = "none"
                   /\ \A e \in Conns : e < d => conns[e].status # "none")
                      => ENABLED (\E ok \in BOOLEAN : AcceptConnection(d, ok))

\* C28 happens: the first connection is open and has sent nothing; the
\* second one arrived after it and has had an action forwarded.
C28_Witness ==
    /\ conns[1].status = "open"
    /\ ~conns[1].forwarded
    /\ conns[2].status = "open"
    /\ conns[2].forwarded

\* the signal handler's Stop is pending in the Action channel
StopSignalled == \E i \in 1..Len(inbox) : inbox[i].from = "signal"

\* Daemon::run no longer drains the channel: it panicked on an action before
\* the Stop, or the model's bounds keep it from taking the next one
StoppedDraining ==
    \/ loop = "panicked"
    \/ loop = "running" /\ inbox # <<>> /\ ~ENABLED Run

\* C26: once the signal handler's Stop is in the Action channel, the
\* ControlLoop, unless it stops draining the channel, eventually terminates.
C26_SignalStopsTheLoop == StopSignalled ~> (loop = "stopped" \/ StoppedDraining)

\* C26 happens: the signal handler sent its Stop behind an action still
\* pending, and the ControlLoop, running, has both to take.
C26_Witness ==
    /\ loop = "running"
    /\ Len(inbox) = 2
    /\ inbox[1].type # "Stop"
    /\ inbox[2] = Msg("Stop", "", "signal")

\* the iteration of the scheduling thread that takes a snapshot off the
\* Configuration channel and builds its source from it
ThreadTakesSnapshot ==
    /\ trigStatus = "running"
    /\ cfgChan # <<>>
    /\ cfgChan' = Tail(cfgChan)
    /\ built'.result = "Ok"

\* C31: an iteration of the scheduling thread whose target (with an action to
\* send) is 10 s or more away from now goes to sleep before the next one.
C31_SleepsUnlessWithinTolerance ==
    [][ThreadTakesSnapshot =>
         LET ev == NextEventAt(Unwrap(scheduler'), clock, clock)
         IN  (/\ IsSome(ev)
              /\ IsSome(Unwrap(ev).action)
              /\ Abs(Unwrap(ev).at - clock) >= Tolerance)
                 => trigStatus' = "sleeping"]_vars

\* C32: handling Enable, Disable, Toggle, Trigger or Nothing leaves the watch
\* and the manual, automatic, actions and hot_reload fields of the
\* Configuration as they were and sends no snapshot; Trigger and Nothing
\* leave enabled as it was too.
C32_FrameOfTheSmallActions ==
    [][\A t \in {"Enable", "Disable", "Toggle", "Trigger", "Nothing"} :
          RunTakes(t) =>
             /\ watcher' = watcher
             /\ config'.manual = config.manual
             /\ config'.automatic = config.automatic
             /\ config'.actions = config.actions
             /\ config'.hot_reload = config.hot_reload
             /\ cfgChan' = cfgChan
             /\ t \in {"Trigger", "Nothing"} => config'.enabled = config.enabled]_vars

\* the target of the source the scheduling thread holds, seen from now
HeldTarget == NextEventAt(Unwrap(scheduler), clock, clock)

C34_EveryManualEntryIsReturned ==
    (/\ ManualAsked
     /\ Len(call.source.time_stamps) >= 2
     /\ \A i, j \in DOMAIN call.source.time_stamps :
           i # j => call.source.time_stamps[i].trigger_time
                       # call.source.time_stamps[j].trigger_time)
      => LET ts == call.source.time_stamps
             day == DateNaive(call.wall) * SecondsPerDay
         IN  \A i \in DOMAIN ts :
                \E k \in {-1, 0, 1} :
                   LET got == ManualNextActionAt(ts, day + ts[i].trigger_time + k,
                                                 call.wall)
                   IN  /\ IsSome(got)
                       /\ Unwrap(got).trigger = ts[i].action
                       /\ TimeOfDay(Unwrap(got).at) = ts[i].trigger_time

\* the iteration in which the scheduling thread takes a snapshot off the
\* Configuration channel
ThreadTakes == trigStatus = "running" /\ cfgChan # <<>> /\ cfgChan' = Tail(cfgChan)

\* the automatic and the manual source of a configuration
AutomaticSourceOf(cfg) ==
    [automatic |-> TRUE, coords |-> cfg.automatic, time_stamps |-> <<>>,
     actions |-> cfg.actions]
ManualSourceOf(cfg) ==
    [automatic |-> FALSE, coords |-> None, time_stamps |-> Unwrap(cfg.manual),
     actions |-> cfg.actions]

\* latitude and longitude are within their ranges
InRange(c) ==
    /\ -90 <= c.latitude /\ c.latitude <= 90
    /\ -180 <= c.longitude /\ c.longitude <= 180

\* C35, as stated: from the snapshot it takes the thread builds the automatic
\* source whenever automatic is present, the manual source when only manual
\* is, and gets InvalidConfiguration when both are absent; it holds at most
\* one source, the one of the last snapshot alone.
C35_OneSourcePerConfiguration ==
    [][ThreadTakes =>
         LET cfg == Head(cfgChan)
         IN  /\ IsSome(cfg.automatic) =>
                   built'.result = "Ok" /\ scheduler' = Some(AutomaticSourceOf(cfg))
             /\ (IsNone(cfg.automatic) /\ IsSome(cfg.manual)) =>
                   built'.result = "Ok" /\ scheduler' = Some(ManualSourceOf(cfg))
             /\ (IsNone(cfg.automatic) /\ IsNone(cfg.manual)) =>
                   built'.result = "Err" /\ built'.err = "InvalidConfiguration"
             /\ Len(scheduler') <= 1]_vars

\* C35, amended: the automatic source is built when automatic is present with
\* coordinates in range; with coordinates out of range no source is built and
\* the thread keeps none from this snapshot.
C35_OneSourcePerValidConfiguration ==
    [][ThreadTakes =>
         LET cfg == Head(cfgChan)
         IN  /\ (IsSome(cfg.automatic) /\ InRange(Unwrap(cfg.automatic))) =>
                   built'.result = "Ok" /\ scheduler' = Some(AutomaticSourceOf(cfg))
             /\ (IsSome(cfg.automatic) /\ ~InRange(Unwrap(cfg.automatic))) =>
                   built'.result # "Ok" /\ scheduler' = scheduler
             /\ (IsNone(cfg.automatic) /\ IsSome(cfg.manual)) =>
                   built'.result = "Ok" /\ scheduler' = Some(ManualSourceOf(cfg))
             /\ (IsNone(cfg.automatic) /\ IsNone(cfg.manual)) =>
                   /\ built'.result = "Err"
                   /\ built'.err = "InvalidConfiguration"
                   /\ scheduler' = scheduler
             /\ Len(scheduler') <= 1]_vars

\* C35 happens: the thread took a snapshot with both manual and automatic
\* present, and holds the automatic source of it.
C35_Witness ==
    /\ built.called
    /\ built.result = "Ok"
    /\ IsSome(built.config.manual)
    /\ IsSome(built.config.automatic)
    /\ scheduler = Some(AutomaticSourceOf(built.config))
    /\ trigStatus = "running"

\* the thread sleeps until after the last instant the clock of the model shows
SleepOutlastsClock ==
    trigStatus = "sleeping" /\ \A t \in Instants : t < wakeAt

\* C36: once the ControlLoop has ended and its Daemon, with the sender of
\* the Configuration channel, is dropped, the scheduling thread eventually
\* ends (unless the model's clock stops before its sleep is over).
C36_ThreadEndsAfterTheLoop ==
    (loop # "running") ~> (trigStatus \in {"exited", "panicked"} \/ SleepOutlastsClock)

\* C36 happens: the ControlLoop has ended on Stop, and the thread, which was
\* alive and holding a source, found the channel disconnected and returned.
C36_Witness ==
    /\ loop = "stopped"
    /\ trigStatus = "exited"
    /\ IsSome(scheduler)
    /\ cfgChan = <<>>

\* C37: when the listener cannot be created, Daemon::create fails with
\* FailedtoCreateDaemon and leaves no listener thread, no scheduling thread,
\* no watch and no snapshot behind; when it succeeds, both threads run and
\* the startup Configuration is in the channel to the scheduling thread,
\* so that it has been sent whenever the ControlLoop takes an action.
C37_CreateStartsAllOrNothing ==
    [][/\ (loop = "none" /\ loop' = "failed" /\ listener' = "none") =>
             /\ loopErr' = "FailedtoCreateDaemon"
             /\ trigStatus' = "none"
             /\ watcher' = 0
             /\ cfgChan' = <<>>
       /\ (loop = "none" /\ loop' = "running") =>
             /\ listener' = "accepting"
             /\ trigStatus' = "running"
             /\ cfgChan' = <<config>>
       /\ LoopTakes => (cfgChan # <<>> \/ built.called)]_vars

\* C37 happens: the listener could not be created, Daemon::create has
\* returned FailedtoCreateDaemon and nothing runs.
C37_Witness ==
    /\ loop = "failed"
    /\ loopErr = "FailedtoCreateDaemon"
    /\ listener = "none"
    /\ trigStatus = "none"
    /\ watcher = 0
    /\ config.hot_reload

----------------------------------------------------------------------------
(* The pipe-based daemon of main.rs: DaemonState, its handler thread and its
   pipe-translation thread *)

\* how many times the pipe is written to
MaxPipeWrites == 2

\* main.rs' Action: Stop, Enable, Disable, Toggle, ReloadConfig, Trigger
PipeActions == {"Stop", "Enable", "Disable", "Toggle", "ReloadConfig", "Trigger"}

\* what a write puts into the pipe: an encoded Action, or bytes that are none
PipeInputs == PipeActions \cup {"Undecodable"}

\* all the variables but daemonState
socketVars == <<controlVars, listener, conns, polled, clock, call>>

\* DaemonState::create_from_config; pipeOk: whether platform::make_pipe
\* succeeds. The pipe is a FIFO the daemon opens for reading AND writing, so
\* a read of it waits for input and never sees the end of the input
CreateFromConfig(pipeOk) ==
    /\ ~daemonState.created
    /\ daemonState.exit = "none"
    /\ daemonState' =
          IF pipeOk
            THEN [created |-> TRUE, translate_should_run |-> TRUE,
                  pipe |-> <<>>, events |-> <<>>,
                  translate_thread |-> "decoding",
                  handler_thread |-> "receiving",
                  enabled |-> config.enabled, written |-> 0,
                  signalled |-> FALSE, exit |-> "joining_handler"]
            ELSE [NoDaemonState EXCEPT !.exit = "failed"]
    /\ UNCHANGED socketVars

\* a process that has the pipe open writes to it
PipeWrite(a) ==
    /\ daemonState.created
    /\ daemonState.written < MaxPipeWrites
    /\ daemonState' = [daemonState EXCEPT !.pipe = Append(@, a),
                                          !.written = @ + 1]
    /\ UNCHANGED socketVars

\* start_translate_pipe_events' thread: decode_from_std_read returns (it
\* waits as long as the pipe is empty), then sender.send(action).expect(..)
TranslateDecodes ==
    /\ daemonState.translate_thread = "decoding"
    /\ daemonState.pipe # <<>>
    /\ LET action == Head(daemonState.pipe)
       IN  daemonState' =
              IF action = "Undecodable"
                THEN [daemonState EXCEPT !.pipe = Tail(@),
                                         !.translate_thread = "ended"]
              ELSE IF daemonState.handler_thread = "receiving"
                THEN [daemonState EXCEPT !.pipe = Tail(@),
                                         !.events = Append(@, action),
                                         !.translate_thread = "sent"]
              ELSE [daemonState EXCEPT !.pipe = Tail(@),
                                       !.translate_thread = "panicked"]
    /\ UNCHANGED socketVars

\* start_translate_pipe_events' thread: if !is_running.load(..) { break; }
TranslateLoadsFlag ==
    /\ daemonState.translate_thread = "sent"
    /\ daemonState' =
          [daemonState EXCEPT !.translate_thread =
              IF ~daemonState.translate_should_run THEN "ended"
              ELSE "decoding"]
    /\ UNCHANGED socketVars

\* main.rs' handle_command on the handler thread's configuration; loaded:
\* what load_config gives for a ReloadConfig
PipeHandleCommand(command, enabled, loaded) ==
    CASE command = "Enable" -> [ok |-> TRUE, enabled |-> TRUE]
      [] command = "Disable" -> [ok |-> TRUE, enabled |-> FALSE]
      [] command = "Toggle" -> [ok |-> TRUE, enabled |-> ~enabled]
      [] command = "ReloadConfig" ->
            IF loaded.ok THEN [ok |-> TRUE, enabled |-> loaded.enabled]
            ELSE [ok |-> FALSE, enabled |-> enabled]
      \* Trigger is todo!(), Stop is unreachable!(): both panic
      [] OTHER -> [ok |-> FALSE, enabled |-> enabled]

\* run_as_daemon's thread: one events.recv() and what follows it; the
\* Receiver is dropped with the thread, and what it holds with it
RunAsDaemon ==
    /\ daemonState.handler_thread = "receiving"
    /\ daemonState.events # <<>>
    /\ \E loaded \in [ok : BOOLEAN, enabled : BOOLEAN] :
          LET c == Head(daemonState.events)
              done == PipeHandleCommand(c, daemonState.enabled, loaded)
          IN  daemonState' =
                 IF c = "Stop"
                   THEN [daemonState EXCEPT !.translate_should_run = FALSE,
                                            !.events = <<>>,
                                            !.handler_thread = "ended"]
                 ELSE IF done.ok
                   THEN [daemonState EXCEPT !.events = Tail(@),
                                            !.enabled = done.enabled]
                 ELSE [daemonState EXCEPT !.events = <<>>,
                                          !.handler_thread = "panicked"]
    /\ UNCHANGED socketVars

\* the handler setup_sig_handler installs: sender.send(Action::Stop)
PipeSigHandler ==
    /\ daemonState.created
    /\ ~daemonState.signalled
    /\ daemonState' =
          IF daemonState.handler_thread = "receiving"
            THEN [daemonState EXCEPT !.signalled = TRUE,
                                     !.events = Append(@, "Stop")]
            ELSE [daemonState EXCEPT !.signalled = TRUE]
    /\ UNCHANGED socketVars

\* a thread that has come to its end, by returning or by a panic
Joinable(thread) == thread \in {"ended", "panicked"}

\* DaemonState::wait_for_exit: handler_thread.join(), translate_thread.join(),
\* then the result
WaitForExit ==
    /\ IF daemonState.exit = "joining_handler"
         THEN /\ Joinable(daemonState.handler_thread)
              /\ daemonState' = [daemonState EXCEPT !.exit = "joining_translate"]
         ELSE /\ daemonState.exit = "joining_translate"
              /\ Joinable(daemonState.translate_thread)
              /\ daemonState' =
                    [daemonState EXCEPT !.exit =
                        IF "panicked" \in {daemonState.handler_thread,
                                           daemonState.translate_thread}
                          THEN "JoinError" ELSE "Ok"]
    /\ UNCHANGED socketVars

\* start_daemon, with the environment of the pipe-based daemon
PipeInit ==
    /\ NotCreated(FileMissing, ConfigurationDefault)
    /\ clock = TargetInstant
    /\ call = NoCall

PipeNext ==
    \/ \E pipeOk \in BOOLEAN : CreateFromConfig(pipeOk)
    \/ \E a \in PipeInputs : PipeWrite(a)
    \/ TranslateDecodes
    \/ TranslateLoadsFlag
    \/ RunAsDaemon
    \/ PipeSigHandler
    \/ WaitForExit

PipeSpec == PipeInit /\ [][PipeNext]_vars

----------------------------------------------------------------------------
(* C38 *)

\* the handler thread has handled a Stop: it stored false into the flag,
\* left its loop, removed the pipe's file and ended
StopHandled ==
    /\ daemonState.created
    /\ ~daemonState.translate_should_run
    /\ daemonState.handler_thread = "ended"

\* C38: once a Stop has been handled, wait_for_exit returns without further
\* input on the pipe, so the pipe-translation thread is never left waiting
\* for input on an empty pipe: from there on only a write to the pipe could
\* bring it to its end
C38_TranslationEndsAfterStop ==
    (StopHandled /\ daemonState.pipe = <<>>)
        => daemonState.translate_thread # "decoding"

====
